---- MODULE Spec2Model ----
(***************************************************************************)
(* Model of clinicaio: FileType validation, the PreprocessingConfig        *)
(* hierarchy, the get_preprocessing registry and CapsReader.               *)
(*                                                                         *)
(* A Python str is modelled as a sequence of one-character strings, so     *)
(* that indexing, concatenation, replace and substring search are          *)
(* computed character by character.  The character U+00D7 (the             *)
(* multiplication sign of the crop-dimension text) is written "U+00D7".    *)
(***************************************************************************)
EXTENDS Integers, Sequences, FiniteSets, TLC

VARIABLES input_directory, config, last, passed

vars == <<input_directory, config, last, passed>>

(***************************************************************************)
(* Bounds of the model.                                                    *)
(***************************************************************************)
\* longest FileType pattern drawn as an input
MaxPatternLen == 2
\* longest custom_suffix drawn as an input
MaxSuffixLen == 1

(***************************************************************************)
(* Python str operations.                                                  *)
(***************************************************************************)
\* s.startswith(p)
StartsWith(s, p) == Len(s) >= Len(p) /\ SubSeq(s, 1, Len(p)) = p

\* sub in s
Contains(s, sub) ==
    \E i \in 0..(Len(s) - Len(sub)) : SubSeq(s, i + 1, i + Len(sub)) = sub

\* number of (possibly overlapping) occurrences of sub in s
Occurrences(s, sub) ==
    Cardinality({i \in 0..(Len(s) - Len(sub)) : SubSeq(s, i + 1, i + Len(sub)) = sub})

\* s.replace(old, new) for one-character old and new
Replace(s, old, new) == [i \in 1..Len(s) |-> IF s[i] = old THEN new ELSE s[i]]

\* Optional[str]: None, or a str
None == [some |-> FALSE, v |-> <<>>]
Some(s) == [some |-> TRUE, v |-> s]

\* truthiness of an Optional[str]: None and "" are falsy
Truthy(o) == o.some /\ o.v # <<>>

\* all strings over an alphabet of length at most n
Strs(alphabet, n) == UNION {[1..k -> alphabet] : k \in 0..n}

(***************************************************************************)
(* enum.py is not part of the sources: members are taken from their uses   *)
(* in preprocessing.py, their values from the specification's examples.    *)
(***************************************************************************)
PreprocessingMembers ==
    {"T1_LINEAR", "T2_LINEAR", "FLAIR_LINEAR", "PET_LINEAR", "CUSTOM", "DWI_DTI"}

\* Preprocessing.<member>.value
PreprocessingValue(m) ==
    CASE m = "T1_LINEAR" -> <<"t","1","-","l","i","n","e","a","r">> (* "t1-linear" *)
      [] m = "T2_LINEAR" -> <<"t","2","-","l","i","n","e","a","r">> (* "t2-linear" *)
      [] m = "FLAIR_LINEAR" -> <<"f","l","a","i","r","-","l","i","n","e","a","r">> (* "flair-linear" *)
      [] m = "PET_LINEAR" -> <<"p","e","t","-","l","i","n","e","a","r">> (* "pet-linear" *)
      [] m = "CUSTOM" -> <<"c","u","s","t","o","m">> (* "custom" *)
      [] m = "DWI_DTI" -> <<"d","w","i","-","d","t","i">> (* "dwi-dti" *)

\* LinearModality.<member>.value and ImageModality.<member>.value
ModalityValue(m) ==
    CASE m = "LinearModality.T1W" -> <<"T","1","w">> (* "T1w" *)
      [] m = "LinearModality.T2W" -> <<"T","2","w">> (* "T2w" *)
      [] m = "LinearModality.FLAIR" -> <<"f","l","a","i","r">> (* "flair" *)
      [] m = "ImageModality.PET" -> <<"p","e","t">> (* "pet" *)
      [] m = "ImageModality.DWI" -> <<"d","w","i">> (* "dwi" *)
      [] m = "ImageModality.CUSTOM" -> <<"c","u","s","t","o","m">> (* "custom" *)

\* Tracer values: the default tracer Tracer.FFDG and the specification's
\* example tracer FDG
TracerFFDG == <<"1","8","F","F","D","G">> (* "18FFDG" *)
TracerValues == {TracerFFDG, <<"1","8","F","A","V","4","5">> (* "18FAV45" *), <<"F","D","G">> (* "FDG" *)}

\* SUVRReferenceRegions.CEREBELLUMPONS2.value
CerebellumPons2 == <<"c","e","r","e","b","e","l","l","u","m","P","o","n","s","2">> (* "cerebellumPons2" *)

\* DTIMeasure.FRACTIONAL_ANISOTROPY.value, DTISpace.ALL.value
FractionalAnisotropy == <<"F","A">> (* "FA" *)
DTISpaceAll == <<"*">> (* "*" *)

(***************************************************************************)
(* Outcomes of a call: a returned value or a raised exception.             *)
(***************************************************************************)
Raise(exc) ==
    [status |-> exc, pattern |-> <<>>, description |-> <<>>, needed_pipeline |-> None]

Ok(pattern, description, needed_pipeline) ==
    [status |-> "ok", pattern |-> pattern, description |-> description,
     needed_pipeline |-> needed_pipeline]

(***************************************************************************)
(* file_type.py                                                            *)
(***************************************************************************)
\* FileType.check_pattern: v[0] == "/" raises ValueError (a pydantic
\* validation error); v[0] of the empty string raises IndexError, which
\* pydantic does not turn into a validation error.
check_pattern(v) ==
    IF Len(v) = 0 THEN "IndexError"
    ELSE IF v[1] = "/" THEN "ValidationError"
    ELSE "ok"

\* FileType(pattern=..., description=..., needed_pipeline=...)
FileType(pattern, description, needed_pipeline) ==
    IF check_pattern(pattern) = "ok"
    THEN Ok(pattern, description, needed_pipeline)
    ELSE Raise(check_pattern(pattern))

(***************************************************************************)
(* preprocessing.py: the PreprocessingConfig hierarchy.                    *)
(* A config is a record of its fields; cls is its concrete class.          *)
(***************************************************************************)
Classes ==
    {"T1PreprocessingConfig", "T2PreprocessingConfig", "FlairPreprocessingConfig",
     "PETPreprocessingConfig", "CustomPreprocessingConfig", "DTIPreprocessingConfig"}

\* the default of the preprocessing field of each class
DefaultPreprocessing(cls) ==
    CASE cls = "T1PreprocessingConfig" -> "T1_LINEAR"
      [] cls = "T2PreprocessingConfig" -> "T2_LINEAR"
      [] cls = "FlairPreprocessingConfig" -> "FLAIR_LINEAR"
      [] cls = "PETPreprocessingConfig" -> "PET_LINEAR"
      [] cls = "CustomPreprocessingConfig" -> "CUSTOM"
      [] cls = "DTIPreprocessingConfig" -> "DWI_DTI"

\* cls(): every field at its default
DefaultConfig(cls) ==
    [cls |-> cls,
     from_bids |-> FALSE,
     preprocessing |-> DefaultPreprocessing(cls),
     use_uncropped_image |-> FALSE,
     tracer |-> TracerFFDG,
     custom_suffix |-> <<>>]

\* compute_folder deciding on the config's own from_bids field
compute_folder_own_field(self, from_bids) ==
    IF self.from_bids
    THEN PreprocessingValue(self.preprocessing)
    ELSE Replace(PreprocessingValue(self.preprocessing), "-", "_")

\* PreprocessingConfig.compute_folder
compute_folder(self, from_bids) ==
    IF from_bids
    THEN PreprocessingValue(self.preprocessing)
    ELSE Replace(PreprocessingValue(self.preprocessing), "-", "_")

\* PET bids_nii testing "reconstruction is not None" instead of its truthiness
PETPreprocessingConfig_bids_nii_rec_not_none(self, reconstruction) ==
    LET d1 == <<"P","E","T"," ","d","a","t","a"," ","w","i","t","h"," ">> (* "PET data with " *) \o self.tracer \o <<" ","t","r","a","c","e","r">> (* " tracer" *)
        d2 == IF reconstruction.some
              THEN d1 \o <<" ","a","n","d"," ","r","e","c","o","n","s","t","r","u","c","t","i","o","n"," ","m","e","t","h","o","d"," ">> (* " and reconstruction method " *) \o reconstruction.v
              ELSE d1
        rec == IF reconstruction.some THEN <<"_","r","e","c","-">> (* "_rec-" *) \o reconstruction.v ELSE <<>>
    IN  FileType(<<"p","e","t","/","*","_","t","r","c","-">> (* "pet/*_trc-" *) \o self.tracer \o rec \o <<"_","p","e","t",".","n","i","i","*">> (* "_pet.nii*" *), d2, None)

\* PETPreprocessingConfig.bids_nii
PETPreprocessingConfig_bids_nii(self, reconstruction) ==
    LET d0 == <<"P","E","T"," ","d","a","t","a">> (* "PET data" *)
        hasTrc == self.tracer # <<>>
        d1 == IF hasTrc THEN d0 \o <<" ","w","i","t","h"," ">> (* " with " *) \o self.tracer \o <<" ","t","r","a","c","e","r">> (* " tracer" *) ELSE d0
        trc == IF hasTrc THEN <<"_","t","r","c","-">> (* "_trc-" *) \o self.tracer ELSE <<>>
        hasRec == Truthy(reconstruction)
        d2 == IF hasRec
              THEN d1 \o <<" ","a","n","d"," ","r","e","c","o","n","s","t","r","u","c","t","i","o","n"," ","m","e","t","h","o","d"," ">> (* " and reconstruction method " *) \o reconstruction.v
              ELSE d1
        rec == IF hasRec THEN <<"_","r","e","c","-">> (* "_rec-" *) \o reconstruction.v ELSE <<>>
    IN  FileType(<<"p","e","t","/","*">> (* "pet/*" *) \o trc \o rec \o <<"_","p","e","t",".","n","i","i","*">> (* "_pet.nii*" *), d2, None)

\* custom bids_nii using the suffix alone as the pattern
CustomPreprocessingConfig_bids_nii_no_star(self, reconstruction) ==
    FileType(self.custom_suffix, <<"C","u","s","t","o","m"," ","s","u","f","f","i","x">> (* "Custom suffix" *), None)

\* CustomPreprocessingConfig.bids_nii
CustomPreprocessingConfig_bids_nii(self, reconstruction) ==
    FileType(<<"*">> (* "*" *) \o self.custom_suffix, <<"C","u","s","t","o","m"," ","s","u","f","f","i","x">> (* "Custom suffix" *), None)

\* DTIPreprocessingConfig.bids_nii
DTIPreprocessingConfig_bids_nii(self, reconstruction) ==
    FileType(<<"d","w","i","/","s","u","b","-","*","_","s","e","s","-","*","_","d","w","i",".","n","i","i","*">> (* "dwi/sub-*_ses-*_dwi.nii*" *), <<"D","W","I"," ","N","I","f","T","I">> (* "DWI NIfTI" *), None)

\* T1PreprocessingConfig.bids_nii
T1PreprocessingConfig_bids_nii(self, reconstruction) ==
    FileType(<<"a","n","a","t","/","s","u","b","-","*","_","s","e","s","-","*","_","T","1","w",".","n","i","i","*">> (* "anat/sub-*_ses-*_T1w.nii*" *), <<"T","1","w"," ","M","R","I">> (* "T1w MRI" *), None)

\* FlairPreprocessingConfig.bids_nii
FlairPreprocessingConfig_bids_nii(self, reconstruction) ==
    FileType(<<"s","u","b","-","*","_","s","e","s","-","*","_","f","l","a","i","r",".","n","i","i","*">> (* "sub-*_ses-*_flair.nii*" *), <<"F","L","A","I","R"," ","T","2","w"," ","M","R","I">> (* "FLAIR T2w MRI" *), None)

\* T2PreprocessingConfig.bids_nii
T2PreprocessingConfig_bids_nii(self, reconstruction) ==
    Raise("NotImplementedError")

\* self.bids_nii(reconstruction), dispatched on the class of self
bids_nii(self, reconstruction) ==
    CASE self.cls = "T1PreprocessingConfig" -> T1PreprocessingConfig_bids_nii(self, reconstruction)
      [] self.cls = "T2PreprocessingConfig" -> T2PreprocessingConfig_bids_nii(self, reconstruction)
      [] self.cls = "FlairPreprocessingConfig" -> FlairPreprocessingConfig_bids_nii(self, reconstruction)
      [] self.cls = "PETPreprocessingConfig" -> PETPreprocessingConfig_bids_nii(self, reconstruction)
      [] self.cls = "CustomPreprocessingConfig" -> CustomPreprocessingConfig_bids_nii(self, reconstruction)
      [] self.cls = "DTIPreprocessingConfig" -> DTIPreprocessingConfig_bids_nii(self, reconstruction)

\* self.caps_nii(), dispatched on the class of self:
\* the pair (needed_pipeline, modality)
caps_nii(self) ==
    [needed_pipeline |-> self.preprocessing,
     modality |->
        CASE self.cls = "T1PreprocessingConfig" -> "LinearModality.T1W"
          [] self.cls = "FlairPreprocessingConfig" -> "LinearModality.T2W"
          [] self.cls = "T2PreprocessingConfig" -> "LinearModality.FLAIR"
          [] self.cls = "PETPreprocessingConfig" -> "ImageModality.PET"
          [] self.cls = "CustomPreprocessingConfig" -> "ImageModality.CUSTOM"
          [] self.cls = "DTIPreprocessingConfig" -> "ImageModality.DWI"]

\* the qualifier and the text of the cropped image
DescCrop == <<"_","d","e","s","c","-","C","r","o","p">> (* "_desc-Crop" *)
CropText == <<"a","n","d"," ","c","r","o","p","p","e","d"," ","(","m","a","t","r","i","x"," ","s","i","z","e"," ","1","6","9","U+00D7","2","0","8","U+00D7","1","7","9",","," ","1"," ","m","m"," ","i","s","o","t","r","o","p","i","c"," ","v","o","x","e","l","s",")">> (* "and cropped (matrix size 169\u00D7208\u00D7179, 1 mm isotropic voxels)" *)

\* linear_nii with the crop condition inverted
linear_nii_crop_inverted(self) ==
    LET needed_pipeline == caps_nii(self).needed_pipeline
        modality == caps_nii(self).modality
        desc_crop == IF self.use_uncropped_image THEN DescCrop ELSE <<>>
    IN  FileType(
            <<"*","s","p","a","c","e","-","M","N","I","1","5","2","N","L","i","n","2","0","0","9","c","S","y","m">> (* "*space-MNI152NLin2009cSym" *) \o desc_crop \o <<"_","r","e","s","-","1","x","1","x","1","_">> (* "_res-1x1x1_" *)
                \o ModalityValue(modality) \o <<".","n","i","i",".","g","z">> (* ".nii.gz" *),
            ModalityValue(modality)
                \o <<" ","I","m","a","g","e"," ","r","e","g","i","s","t","e","r","e","d"," ","i","n"," ","M","N","I","1","5","2","N","L","i","n","2","0","0","9","c","S","y","m"," ","s","p","a","c","e"," ","u","s","i","n","g"," ">> (* " Image registered in MNI152NLin2009cSym space using " *)
                \o PreprocessingValue(needed_pipeline) \o <<" ","p","i","p","e","l","i","n","e"," ">> (* " pipeline " *)
                \o (IF self.use_uncropped_image THEN CropText ELSE <<>>),
            Some(PreprocessingValue(needed_pipeline)))

\* PreprocessingConfig.linear_nii
linear_nii(self) ==
    LET needed_pipeline == caps_nii(self).needed_pipeline
        modality == caps_nii(self).modality
        desc_crop == IF self.use_uncropped_image THEN <<>> ELSE DescCrop
    IN  FileType(
            <<"*","s","p","a","c","e","-","M","N","I","1","5","2","N","L","i","n","2","0","0","9","c","S","y","m">> (* "*space-MNI152NLin2009cSym" *) \o desc_crop \o <<"_","r","e","s","-","1","x","1","x","1","_">> (* "_res-1x1x1_" *)
                \o ModalityValue(modality) \o <<".","n","i","i",".","g","z">> (* ".nii.gz" *),
            ModalityValue(modality)
                \o <<" ","I","m","a","g","e"," ","r","e","g","i","s","t","e","r","e","d"," ","i","n"," ","M","N","I","1","5","2","N","L","i","n","2","0","0","9","c","S","y","m"," ","s","p","a","c","e"," ","u","s","i","n","g"," ">> (* " Image registered in MNI152NLin2009cSym space using " *)
                \o PreprocessingValue(needed_pipeline) \o <<" ","p","i","p","e","l","i","n","e"," ">> (* " pipeline " *)
                \o (IF self.use_uncropped_image THEN <<>> ELSE CropText),
            Some(PreprocessingValue(needed_pipeline)))

\* PETPreprocessingConfig.get_filetype
PETPreprocessingConfig_get_filetype(self) ==
    LET des_crop == IF self.use_uncropped_image THEN <<>> ELSE DescCrop
    IN  FileType(
            <<"p","e","t","_","l","i","n","e","a","r","/","*","_","t","r","c","-">> (* "pet_linear/*_trc-" *) \o self.tracer \o <<"_","s","p","a","c","e","-","M","N","I","1","5","2","N","L","i","n","2","0","0","9","c","S","y","m">> (* "_space-MNI152NLin2009cSym" *)
                \o des_crop \o <<"_","r","e","s","-","1","x","1","x","1","_","s","u","v","r","-">> (* "_res-1x1x1_suvr-" *) \o CerebellumPons2
                \o <<"_","p","e","t",".","n","i","i",".","g","z">> (* "_pet.nii.gz" *),
            <<>>,
            Some(<<"p","e","t","-","l","i","n","e","a","r">> (* "pet-linear" *)))

\* DTIPreprocessingConfig.get_filetype
DTIPreprocessingConfig_get_filetype(self) ==
    FileType(
        <<"d","w","i","/","d","t","i","_","b","a","s","e","d","_","p","r","o","c","e","s","s","i","n","g","/","*","/","*","_","s","p","a","c","e","-">> (* "dwi/dti_based_processing/*/*_space-" *) \o DTISpaceAll \o <<"_">> (* "_" *)
            \o FractionalAnisotropy \o <<".","n","i","i",".","g","z">> (* ".nii.gz" *),
        <<"D","T","I","-","b","a","s","e","d"," ">> (* "DTI-based " *) \o FractionalAnisotropy \o <<" ","i","n"," ","s","p","a","c","e"," ">> (* " in space " *) \o DTISpaceAll \o <<".">> (* "." *),
        Some(<<"d","w","i","_","d","t","i">> (* "dwi_dti" *)))

\* self.get_filetype(), dispatched on the class of self
get_filetype(self) ==
    CASE self.cls \in {"T1PreprocessingConfig", "FlairPreprocessingConfig",
                       "T2PreprocessingConfig"} -> linear_nii(self)
      [] self.cls = "PETPreprocessingConfig" -> PETPreprocessingConfig_get_filetype(self)
      [] self.cls = "CustomPreprocessingConfig" -> bids_nii(self, None)
      [] self.cls = "DTIPreprocessingConfig" -> DTIPreprocessingConfig_get_filetype(self)

\* file_type always reading the derived layout
file_type_ignoring_from_bids(self) == get_filetype(self)

\* PreprocessingConfig.file_type (computed field)
file_type(self) ==
    IF self.from_bids THEN bids_nii(self, None)
    ELSE IF self.preprocessing \notin PreprocessingMembers
    THEN Raise("NotImplementedError")
    ELSE get_filetype(self)

(***************************************************************************)
(* preprocessing.py: the registry.                                         *)
(***************************************************************************)
\* a tag given as an enum member, or as a str
AsMember(m) == [kind |-> "enum", member |-> m, str |-> <<>>]
AsStr(s) == [kind |-> "str", member |-> "", str |-> s]

\* Preprocessing(preprocessing_type): the member, or ValueError
ToPreprocessing(x) ==
    IF x.kind = "enum" THEN [status |-> "ok", member |-> x.member]
    ELSE IF \E m \in PreprocessingMembers : PreprocessingValue(m) = x.str
    THEN [status |-> "ok",
          member |-> CHOOSE m \in PreprocessingMembers : PreprocessingValue(m) = x.str]
    ELSE [status |-> "ValueError", member |-> ""]

\* get_preprocessing: the configuration class, or ValueError
get_preprocessing(preprocessing_type) ==
    LET p == ToPreprocessing(preprocessing_type)
    IN  IF p.status # "ok" THEN [status |-> "ValueError", cls |-> ""]
        ELSE IF p.member = "T1_LINEAR" THEN [status |-> "ok", cls |-> "T1PreprocessingConfig"]
        ELSE IF p.member = "PET_LINEAR" THEN [status |-> "ok", cls |-> "PETPreprocessingConfig"]
        ELSE IF p.member = "FLAIR_LINEAR" THEN [status |-> "ok", cls |-> "FlairPreprocessingConfig"]
        ELSE IF p.member = "CUSTOM" THEN [status |-> "ok", cls |-> "CustomPreprocessingConfig"]
        ELSE IF p.member = "DWI_DTI" THEN [status |-> "ok", cls |-> "DTIPreprocessingConfig"]
        ELSE [status |-> "ValueError", cls |-> ""]

(***************************************************************************)
(* pathlib.Path as used by main.py: an anchor ("", "/" or "//") and the    *)
(* sequence of the path's components.                                      *)
(***************************************************************************)
RECURSIVE LeadingSlashes(_)
LeadingSlashes(s) ==
    IF s # <<>> /\ Head(s) = "/" THEN 1 + LeadingSlashes(Tail(s)) ELSE 0

\* the components of a str: split on "/", dropping empty and "." components
RECURSIVE Components(_)
Components(s) ==
    IF s = <<>> THEN <<>>
    ELSE LET k == IF \E i \in 1..Len(s) : s[i] = "/"
                  THEN CHOOSE i \in 1..Len(s) :
                          s[i] = "/" /\ \A j \in 1..(i - 1) : s[j] # "/"
                  ELSE Len(s) + 1
             head == SubSeq(s, 1, k - 1)
             rest == SubSeq(s, k + 1, Len(s))
         IN  (IF head \in {<<>>, <<".">>} THEN <<>> ELSE <<head>>) \o Components(rest)

\* Path(s)
PathOf(s) ==
    [anchor |-> CASE LeadingSlashes(s) = 0 -> <<>>
                  [] LeadingSlashes(s) = 2 -> <<"/", "/">>
                  [] OTHER -> <<"/">>,
     parts |-> Components(s)]

\* p / s: an absolute s replaces p
PathJoin(p, s) ==
    IF LeadingSlashes(s) > 0 THEN PathOf(s)
    ELSE [anchor |-> p.anchor, parts |-> p.parts \o Components(s)]

\* str(p)
RECURSIVE JoinParts(_)
JoinParts(parts) ==
    IF parts = <<>> THEN <<>>
    ELSE IF Len(parts) = 1 THEN parts[1]
    ELSE parts[1] \o <<"/">> \o JoinParts(Tail(parts))

PathStr(p) ==
    IF p.anchor = <<>> /\ p.parts = <<>> THEN <<".">>
    ELSE p.anchor \o JoinParts(p.parts)

(***************************************************************************)
(* main.py: CapsReader.                                                    *)
(***************************************************************************)
\* preprocessing_folder keeping the hyphens of the tag
preprocessing_folder_keeping_hyphens(dir, subject, session, preprocessing) ==
    PathJoin(
        PathJoin(
            PathJoin(PathJoin(dir, <<"s","u","b","j","e","c","t","s">> (* "subjects" *)), subject),
            session),
        PreprocessingValue(preprocessing))

\* CapsReader.preprocessing_folder; preprocessing is an enum member
preprocessing_folder(dir, subject, session, preprocessing) ==
    PathJoin(
        PathJoin(
            PathJoin(PathJoin(dir, <<"s","u","b","j","e","c","t","s">> (* "subjects" *)), subject),
            session),
        Replace(PreprocessingValue(preprocessing), "-", "_"))

\* the FileType that CapsReader.get_input_files hands to clinicadl_file_reader
get_input_files_file_type(preprocessing) == get_filetype(preprocessing)

\* clinica_utils.clinicadl_file_reader is not part of the sources: it
\* returns (matched paths, diagnostics); found pairs are matched, the
\* others are reported
clinicadl_file_reader(subjects, sessions, dir, file_type_dict, found) ==
    <<[i \in 1..found |-> <<subjects[i], sessions[i], file_type_dict.pattern>>],
      [i \in 1..(Len(subjects) - found) |-> <<subjects[found + i], sessions[found + i]>>]>>

(***************************************************************************)
(* Inputs.                                                                 *)
(***************************************************************************)
Alphabet == {"/", "a"}
Patterns == Strs(Alphabet, MaxPatternLen)
Suffixes == Strs(Alphabet, MaxSuffixLen)

Roots == {PathOf(<<"/","d","a","t","a","/","c","a","p","s">> (* "/data/caps" *)), PathOf(<<"c","a","p","s">> (* "caps" *))}
Subjects == {<<"s","u","b","-","0","1">> (* "sub-01" *), <<"s","u","b","-","0","2">> (* "sub-02" *), <<"/","s","u","b","-","0","1">> (* "/sub-01" *)}
Sessions == {<<"s","e","s","-","M","0","0">> (* "ses-M00" *), <<"s","e","s","-","M","0","6">> (* "ses-M06" *)}

\* a tag as an enum member, as the str of a member, or as another str
TagInputs ==
    {AsMember(m) : m \in PreprocessingMembers}
        \cup {AsStr(PreprocessingValue(m)) : m \in PreprocessingMembers}
        \cup {AsStr(<<"t","1","_","l","i","n","e","a","r">> (* "t1_linear" *)), AsStr(<<>>)}

Reconstructions == {None, Some(<<>>), Some(<<"O","S","E","M">> (* "OSEM" *)), Some(<<"o","s","e","m">> (* "osem" *))}

\* the (subjects, sessions) lists get_subject_session_list may return
SubjectSessionLists ==
    {<<<<>>, <<>>>>,
     <<<<<<"s","u","b","-","0","1">> (* "sub-01" *)>>, <<<<"s","e","s","-","M","0","0">> (* "ses-M00" *)>>>>,
     <<<<<<"s","u","b","-","0","1">> (* "sub-01" *), <<"s","u","b","-","0","2">> (* "sub-02" *)>>, <<<<"s","e","s","-","M","0","0">> (* "ses-M00" *), <<"s","e","s","-","M","0","6">> (* "ses-M06" *)>>>>}

NoConfig ==
    [cls |-> "None", from_bids |-> FALSE, preprocessing |-> "", use_uncropped_image |-> FALSE,
     tracer |-> <<>>, custom_suffix |-> <<>>]

NoFileType == Raise("none")

(***************************************************************************)
(* The state machine: a reader, the config under use, the last call and    *)
(* its outcome, and the FileType last handed to clinicadl_file_reader.     *)
(***************************************************************************)
Init ==
    /\ input_directory \in Roots
    /\ config = NoConfig
    /\ last = [op |-> "CapsReader", arg |-> <<>>, out |-> <<>>]
    /\ passed = NoFileType

\* FileType(pattern=pattern, description="")
NewFileType ==
    \E pattern \in Patterns :
        /\ last' = [op |-> "FileType", arg |-> pattern, out |-> FileType(pattern, <<>>, None)]
        /\ UNCHANGED <<input_directory, config>> /\ passed' = NoFileType

\* reader.get_preprocessing(x): registry lookup and default construction
CapsReader_get_preprocessing ==
    \E x \in TagInputs :
        LET t == get_preprocessing(x)
        IN  /\ config' = IF t.status = "ok" THEN DefaultConfig(t.cls) ELSE config
            /\ last' = [op |-> "get_preprocessing", arg |-> x, out |-> t]
            /\ UNCHANGED input_directory /\ passed' = NoFileType

\* cls(): direct construction of a variant
Construct ==
    \E cls \in Classes :
        /\ config' = DefaultConfig(cls)
        /\ last' = [op |-> "construct", arg |-> cls, out |-> <<>>]
        /\ UNCHANGED input_directory /\ passed' = NoFileType

\* validated reassignment of a field
SetFromBids ==
    /\ config # NoConfig
    /\ \E b \in BOOLEAN :
        /\ config' = [config EXCEPT !.from_bids = b]
        /\ last' = [op |-> "set", arg |-> "from_bids", out |-> <<>>]
    /\ UNCHANGED input_directory /\ passed' = NoFileType

SetUseUncroppedImage ==
    /\ config # NoConfig
    /\ \E b \in BOOLEAN :
        /\ config' = [config EXCEPT !.use_uncropped_image = b]
        /\ last' = [op |-> "set", arg |-> "use_uncropped_image", out |-> <<>>]
    /\ UNCHANGED input_directory /\ passed' = NoFileType

SetPreprocessing ==
    /\ config # NoConfig
    /\ \E m \in PreprocessingMembers :
        /\ config' = [config EXCEPT !.preprocessing = m]
        /\ last' = [op |-> "set", arg |-> "preprocessing", out |-> <<>>]
    /\ UNCHANGED input_directory /\ passed' = NoFileType

SetTracer ==
    /\ config.cls = "PETPreprocessingConfig"
    /\ \E t \in TracerValues :
        /\ config' = [config EXCEPT !.tracer = t]
        /\ last' = [op |-> "set", arg |-> "tracer", out |-> <<>>]
    /\ UNCHANGED input_directory /\ passed' = NoFileType

SetCustomSuffix ==
    /\ config.cls = "CustomPreprocessingConfig"
    /\ \E s \in Suffixes :
        /\ config' = [config EXCEPT !.custom_suffix = s]
        /\ last' = [op |-> "set", arg |-> "custom_suffix", out |-> <<>>]
    /\ UNCHANGED input_directory /\ passed' = NoFileType

\* config.file_type
ReadFileType ==
    /\ config # NoConfig
    /\ last' = [op |-> "file_type", arg |-> <<>>, out |-> file_type(config)]
    /\ UNCHANGED <<input_directory, config>> /\ passed' = NoFileType

\* config.bids_nii(reconstruction)
CallBidsNii ==
    /\ config # NoConfig
    /\ \E r \in Reconstructions :
        last' = [op |-> "bids_nii", arg |-> r, out |-> bids_nii(config, r)]
    /\ UNCHANGED <<input_directory, config>> /\ passed' = NoFileType

\* config.get_filetype()
CallGetFiletype ==
    /\ config # NoConfig
    /\ last' = [op |-> "get_filetype", arg |-> <<>>, out |-> get_filetype(config)]
    /\ UNCHANGED <<input_directory, config>> /\ passed' = NoFileType

\* config.caps_nii()
CallCapsNii ==
    /\ config # NoConfig
    /\ last' = [op |-> "caps_nii", arg |-> <<>>, out |-> caps_nii(config)]
    /\ UNCHANGED <<input_directory, config>> /\ passed' = NoFileType

\* config.compute_folder(from_bids)
CallComputeFolder ==
    /\ config # NoConfig
    /\ \E b \in BOOLEAN :
        last' = [op |-> "compute_folder", arg |-> b, out |-> compute_folder(config, b)]
    /\ UNCHANGED <<input_directory, config>> /\ passed' = NoFileType

\* reader.preprocessing_folder(subject, session, preprocessing)
CapsReader_preprocessing_folder ==
    \E subject \in Subjects, session \in Sessions, m \in PreprocessingMembers :
        /\ last' = [op |-> "preprocessing_folder",
                    arg |-> [subject |-> subject, session |-> session, preprocessing |-> m],
                    out |-> preprocessing_folder(input_directory, subject, session, m)]
        /\ UNCHANGED <<input_directory, config>> /\ passed' = NoFileType

\* reader.get_input_files(config)
CapsReader_get_input_files ==
    /\ config # NoConfig
    /\ \E ss \in SubjectSessionLists :
        \E found \in 0..Len(ss[1]) :
            LET ft == get_input_files_file_type(config)
            IN  /\ passed' = ft
                /\ last' = [op |-> "get_input_files", arg |-> ss,
                            out |-> clinicadl_file_reader(ss[1], ss[2], input_directory,
                                                          ft, found)[1]]
    /\ UNCHANGED <<input_directory, config>>

Next ==
    \/ NewFileType
    \/ CapsReader_get_preprocessing
    \/ Construct
    \/ SetFromBids
    \/ SetUseUncroppedImage
    \/ SetPreprocessing
    \/ SetTracer
    \/ SetCustomSuffix
    \/ ReadFileType
    \/ CallBidsNii
    \/ CallGetFiletype
    \/ CallCapsNii
    \/ CallComputeFolder
    \/ CapsReader_preprocessing_folder
    \/ CapsReader_get_input_files

Spec == Init /\ [][Next]_vars

(***************************************************************************)
(* Properties.                                                             *)
(***************************************************************************)
IsRegisteredTag(x) ==
    \/ x.kind = "enum" /\ x.member \in PreprocessingMembers
    \/ x.kind = "str" /\ \E m \in PreprocessingMembers : PreprocessingValue(m) = x.str

\* C1: for each of the six tags, given as enum member or as its string,
\* get_preprocessing returns a configuration class, and the default config of
\* that class carries the tag that was looked up.
C1_RegistryCoversEveryTag ==
    (last.op = "get_preprocessing" /\ IsRegisteredTag(last.arg)) =>
        /\ last.out.status = "ok"
        /\ config = DefaultConfig(last.out.cls)
        /\ config.preprocessing = ToPreprocessing(last.arg).member

\* C2: get_input_files hands the config's resolved FileType (file_type: the
\* bids_nii() FileType when from_bids, the get_filetype() FileType otherwise)
\* to clinicadl_file_reader, and returns the first element of its result.
C2_ReaderGetsResolvedFileType ==
    last.op = "get_input_files" =>
        /\ passed = file_type(config)
        /\ \E found \in 0..Len(last.arg[1]) :
              last.out = clinicadl_file_reader(last.arg[1], last.arg[2], input_directory,
                                               passed, found)[1]

\* C3: FileType construction fails with a validation error exactly when the
\* pattern begins with "/", and succeeds for every other pattern (the empty
\* one included), storing the pattern given.
C3_RejectsExactlyLeadingSlash ==
    last.op = "FileType" =>
        /\ last.out.status = "ValidationError" <=> StartsWith(last.arg, <<"/">>)
        /\ ~StartsWith(last.arg, <<"/">>) =>
              last.out.status = "ok" /\ last.out.pattern = last.arg

\* C4: file_type has exactly the outcome of bids_nii() when from_bids is true
\* (for the T2 variant the not-implemented failure, which bids_nii gives for
\* every reconstruction argument) and exactly the outcome of get_filetype()
\* when from_bids is false, whatever reassignments led to the current fields.
C4_FileTypeFollowsFromBids ==
    /\ last.op = "file_type" =>
          /\ last.out = IF config.from_bids THEN bids_nii(config, None)
                        ELSE get_filetype(config)
          /\ (config.from_bids /\ config.cls = "T2PreprocessingConfig") =>
                last.out.status = "NotImplementedError"
          /\ ~config.from_bids => last.out.status = "ok"
    /\ (last.op = "bids_nii" /\ config.cls = "T2PreprocessingConfig") =>
          last.out.status = "NotImplementedError"

C4_Witness ==
    /\ last.op = "file_type"
    /\ config.cls = "T2PreprocessingConfig"
    /\ config.from_bids
    /\ config.use_uncropped_image
    /\ last.out.status = "NotImplementedError"

\* the modality each variant represents
OwnModality(cls) ==
    CASE cls = "T1PreprocessingConfig" -> "LinearModality.T1W"
      [] cls = "T2PreprocessingConfig" -> "LinearModality.T2W"
      [] cls = "FlairPreprocessingConfig" -> "LinearModality.FLAIR"
      [] cls = "PETPreprocessingConfig" -> "ImageModality.PET"
      [] cls = "CustomPreprocessingConfig" -> "ImageModality.CUSTOM"
      [] cls = "DTIPreprocessingConfig" -> "ImageModality.DWI"

\* C5: with default fields, caps_nii returns the variant's own preprocessing
\* tag and the modality the variant represents (T1: T1w, T2: T2w,
\* FLAIR: FLAIR, PET, DWI, custom).
C5_CapsNiiOwnModality ==
    (last.op = "caps_nii" /\ config = DefaultConfig(config.cls)) =>
        /\ last.out.needed_pipeline = DefaultPreprocessing(config.cls)
        /\ last.out.modality = OwnModality(config.cls)

LinearClasses ==
    {"T1PreprocessingConfig", "FlairPreprocessingConfig", "T2PreprocessingConfig"}

\* s with the first occurrence of sub removed
RemoveFirst(s, sub) ==
    LET i == CHOOSE k \in 0..(Len(s) - Len(sub)) :
                /\ SubSeq(s, k + 1, k + Len(sub)) = sub
                /\ \A j \in 0..(k - 1) : SubSeq(s, j + 1, j + Len(sub)) # sub
    IN  SubSeq(s, 1, i) \o SubSeq(s, i + Len(sub) + 1, Len(s))

C6_CropQualifier == <<"_","d","e","s","c","-","C","r","o","p">> (* "_desc-Crop" *)
C6_CropDimensions == <<"m","a","t","r","i","x"," ","s","i","z","e"," ","1","6","9","U+00D7","2","0","8","U+00D7","1","7","9",","," ","1"," ","m","m"," ","i","s","o","t","r","o","p","i","c"," ","v","o","x","e","l","s">> (* "matrix size 169\u00D7208\u00D7179, 1 mm isotropic voxels" *)

\* C6: for a linear variant, get_filetype with use_uncropped_image false gives
\* a pattern containing "_desc-Crop" and a description containing the
\* crop-dimension text; with use_uncropped_image true neither; in both cases
\* needed_pipeline is the preprocessing tag, and the two patterns differ only
\* by the crop qualifier.
C6_CropQualifierFollowsFlag ==
    (last.op = "get_filetype" /\ config.cls \in LinearClasses) =>
        LET other == get_filetype([config EXCEPT !.use_uncropped_image = ~@])
            cropped == IF config.use_uncropped_image THEN other ELSE last.out
            uncropped == IF config.use_uncropped_image THEN last.out ELSE other
        IN  /\ last.out.status = "ok" /\ other.status = "ok"
            /\ Contains(last.out.pattern, C6_CropQualifier) <=> ~config.use_uncropped_image
            /\ Contains(last.out.description, C6_CropDimensions)
                  <=> ~config.use_uncropped_image
            /\ last.out.needed_pipeline = Some(PreprocessingValue(config.preprocessing))
            /\ Occurrences(cropped.pattern, C6_CropQualifier) = 1
            /\ RemoveFirst(cropped.pattern, C6_CropQualifier) = uncropped.pattern

C6_Witness ==
    /\ last.op = "get_filetype"
    /\ config.cls = "T2PreprocessingConfig"
    /\ config.use_uncropped_image
    /\ last.out.status = "ok"

\* the path the text root/subjects/<subject>/<session>/<tag, "-" as "_"> names
C7_Expected(root, a) ==
    PathOf(PathStr(root) \o <<"/","s","u","b","j","e","c","t","s","/">> (* "/subjects/" *) \o a.subject \o <<"/">> \o a.session
               \o <<"/">> \o Replace(PreprocessingValue(a.preprocessing), "-", "_"))

C7_Folder(root, l) ==
    /\ l.out = C7_Expected(root, l.arg)
    /\ l.out.parts # <<>>
    /\ l.out.parts[Len(l.out.parts)]
          = compute_folder(
                DefaultConfig(CHOOSE cls \in Classes :
                                  DefaultPreprocessing(cls) = l.arg.preprocessing),
                FALSE)

\* C7 as stated: for every subject, session and tag, preprocessing_folder is
\* root/subjects/<subject>/<session>/<tag with "-" replaced by "_">.
C7_FolderForEverySubject ==
    last.op = "preprocessing_folder" => C7_Folder(input_directory, last)

\* C7, amended: for every subject and session that do not begin with "/" and
\* every tag, preprocessing_folder is
\* root/subjects/<subject>/<session>/<tag with "-" replaced by "_">, its last
\* component is compute_folder(False) of the default config of the tag, and
\* the call leaves input_directory unchanged.
C7_FolderForRelativeSubject ==
    [][(/\ last'.op = "preprocessing_folder"
        /\ ~StartsWith(last'.arg.subject, <<"/">>)
        /\ ~StartsWith(last'.arg.session, <<"/">>))
          => (input_directory' = input_directory /\ C7_Folder(input_directory, last'))]_vars

C7_Witness ==
    /\ last.op = "preprocessing_folder"
    /\ last.arg = [subject |-> <<"s","u","b","-","0","1">> (* "sub-01" *), session |-> <<"s","e","s","-","M","0","0">> (* "ses-M00" *),
                   preprocessing |-> "T1_LINEAR"]
    /\ last.out = PathJoin(input_directory, <<"s","u","b","j","e","c","t","s","/","s","u","b","-","0","1","/","s","e","s","-","M","0","0","/","t","1","_","l","i","n","e","a","r">> (* "subjects/sub-01/ses-M00/t1_linear" *))

\* C8: compute_folder(True) is the tag's value unchanged, compute_folder(False)
\* the same value with every "-" replaced by "_": same length, differing only
\* where the first has "-" and the second "_", the second without "-"; the
\* result depends on the argument only, not on the config's from_bids field.
C8_FolderHyphenOrUnderscore ==
    last.op = "compute_folder" =>
        LET value == PreprocessingValue(config.preprocessing)
            other == compute_folder(config, ~last.arg)
            hyphen == IF last.arg THEN last.out ELSE other
            under == IF last.arg THEN other ELSE last.out
        IN  /\ hyphen = value
            /\ Len(under) = Len(hyphen)
            /\ \A i \in 1..Len(hyphen) :
                  IF hyphen[i] = "-" THEN under[i] = "_" ELSE under[i] = hyphen[i]
            /\ ~Contains(under, <<"-">>)
            /\ last.out = compute_folder([config EXCEPT !.from_bids = ~@], last.arg)

C8_Witness ==
    /\ last.op = "compute_folder"
    /\ last.arg = FALSE
    /\ config.from_bids
    /\ Contains(PreprocessingValue(config.preprocessing), <<"-">>)
    /\ Contains(last.out, <<"_">>)

\* C9: PET bids_nii gives the pattern "pet/*_trc-<T>", then "_rec-<R>" exactly
\* when R is given and non-empty, then "_pet.nii*", with T and R literal; the
\* description mentions the tracer, and the reconstruction method exactly when
\* the pattern has the "_rec-" segment.
C9_PetPatternEmbedsTracerAndRec ==
    (last.op = "bids_nii" /\ config.cls = "PETPreprocessingConfig") =>
        LET r == last.arg
            given == r.some /\ r.v # <<>>
        IN  /\ last.out.status = "ok"
            /\ last.out.pattern
                  = <<"p","e","t","/","*","_","t","r","c","-">> (* "pet/*_trc-" *) \o config.tracer
                      \o (IF given THEN <<"_","r","e","c","-">> (* "_rec-" *) \o r.v ELSE <<>>) \o <<"_","p","e","t",".","n","i","i","*">> (* "_pet.nii*" *)
            /\ Contains(last.out.pattern, <<"_","r","e","c","-">> (* "_rec-" *)) <=> given
            /\ Contains(last.out.description, config.tracer \o <<" ","t","r","a","c","e","r">> (* " tracer" *))
            /\ Contains(last.out.description, <<"r","e","c","o","n","s","t","r","u","c","t","i","o","n"," ","m","e","t","h","o","d">> (* "reconstruction method" *))
                  <=> Contains(last.out.pattern, <<"_","r","e","c","-">> (* "_rec-" *))
            /\ given => Contains(last.out.description, <<"r","e","c","o","n","s","t","r","u","c","t","i","o","n"," ","m","e","t","h","o","d"," ">> (* "reconstruction method " *) \o r.v)

C9_Witness ==
    /\ last.op = "bids_nii"
    /\ config.cls = "PETPreprocessingConfig"
    /\ config.tracer = <<"F","D","G">> (* "FDG" *)
    /\ last.arg = Some(<<"O","S","E","M">> (* "OSEM" *))
    /\ Contains(last.out.pattern, <<"_","t","r","c","-","F","D","G">> (* "_trc-FDG" *))
    /\ Contains(last.out.pattern, <<"_","r","e","c","-","O","S","E","M">> (* "_rec-OSEM" *))
    /\ Contains(last.out.description, <<"F","D","G">> (* "FDG" *))
    /\ Contains(last.out.description, <<"O","S","E","M">> (* "OSEM" *))

\* C10: for every custom_suffix (empty, or beginning with "/", too) the custom
\* config's bids_nii succeeds with the pattern "*" followed by the suffix,
\* get_filetype returns the same FileType, and file_type is that FileType
\* whether from_bids is true or false.
C10_CustomSuffixNeverRejected ==
    (config.cls = "CustomPreprocessingConfig"
        /\ last.op \in {"bids_nii", "get_filetype", "file_type"}) =>
        /\ last.out.status = "ok"
        /\ last.out.pattern = <<"*">> \o config.custom_suffix
        /\ last.out = bids_nii(config, None)
        /\ last.out = get_filetype(config)
        /\ last.out = file_type([config EXCEPT !.from_bids = TRUE])
        /\ last.out = file_type([config EXCEPT !.from_bids = FALSE])

C10_Witness ==
    /\ config.cls = "CustomPreprocessingConfig"
    /\ last.op = "file_type"
    /\ StartsWith(config.custom_suffix, <<"/">>)
    /\ config.from_bids
    /\ last.out.status = "ok"

====
